---- MODULE Spec2Model ----
(***************************************************************************)
(* Model of scripts/generate_ics.py: the schedule page is fetched (or the  *)
(* hardcoded sample substituted), parse_games scans the lines for Sweden   *)
(* games, build_ics turns the games into events and main writes the file.  *)
(*                                                                         *)
(* A line of text is a sequence of one-character strings, so that the      *)
(* three regular expressions and the substring tests are computed on the   *)
(* characters as the code computes them.  The scan index i is 0-based as   *)
(* in the code; line i of the code is lines[i + 1] here.                   *)
(***************************************************************************)
EXTENDS Integers, Sequences, FiniteSets, TLC

VARIABLES
    fetch_raises,        \* whether the live fetch raises inside fetch_lines' try block
    page,                \* the non-empty stripped lines of the live page (fetched_lines)
    pc,                  \* position of main: fetch, parse, build, write, done, error
    lines,               \* parse_games' argument
    i,                   \* parse_games' scan index
    current_date_local,  \* parse_games' date context, None until a date marker
    games,               \* parse_games' list of recorded games, in scan order
    origin,              \* history: origin[k] is the index i at which games[k] was recorded
    result,              \* the list parse_games returned
    ics,                 \* the events build_ics produced
    outfile              \* content of docs/swe-men-hockey.ics, None until written

vars == <<fetch_raises, page, pc, lines, i, current_date_local, games, origin,
          result, ics, outfile>>

None == <<>>

(***************************************************************************)
(* Program constants.                                                      *)
(***************************************************************************)
YEAR == 2026
FEBRUARY == 2
UtcOffsetMinutes == 60
DEFAULT_GAME_DURATION == 150
TimeWindow == 9
VenueWindow == 5
TARGET == <<"S", "W", "E">>
VenueKeywords ==
    { <<"M","i","l","a","n","o">>, <<"C","o","r","t","i","n","a">>,
      <<"A","r","e","n","a">>, <<"I","c","e">>, <<"F","o","r","u","m">> }

(***************************************************************************)
(* Characters and the three regular expressions.                           *)
(***************************************************************************)
Digits == <<"0", "1", "2", "3", "4", "5", "6", "7", "8", "9">>

IsDigit(c) == \E d \in 1..10 : Digits[d] = c

DigitVal(c) == (CHOOSE d \in 1..10 : Digits[d] = c) - 1

IsSpace(c) == c \in {" ", "\t"}

IsUpper(c) ==
    c \in {"A","B","C","D","E","F","G","H","I","J","K","L","M",
           "N","O","P","Q","R","S","T","U","V","W","X","Y","Z"}

\* int() of a string of decimal digits
RECURSIVE ToInt(_)
ToInt(s) ==
    IF s = <<>> THEN 0
    ELSE 10 * ToInt(SubSeq(s, 1, Len(s) - 1)) + DigitVal(s[Len(s)])

\* the characters of s joined into one string
RECURSIVE Join(_)
Join(s) == IF s = <<>> THEN "" ELSE s[1] \o Join(Tail(s))

\* `sub in s` on strings
Contains(s, sub) ==
    \E k \in 0..(Len(s) - Len(sub)) : \A j \in 1..Len(sub) : s[k + j] = sub[j]

\* number of digits the group `day` of DATE_RE takes in s, 0 when s does not match
\* ^(\d{1,2})\s+Feb$
DateDigits(s) ==
    LET fits(n) ==
            /\ Len(s) >= n + 4
            /\ \A k \in 1..n : IsDigit(s[k])
            /\ \A k \in (n + 1)..(Len(s) - 3) : IsSpace(s[k])
            /\ SubSeq(s, Len(s) - 2, Len(s)) = <<"F", "e", "b">>
    IN  IF fits(2) THEN 2 ELSE IF fits(1) THEN 1 ELSE 0

DATE_RE(s) == DateDigits(s) > 0

DateDay(s) == ToInt(SubSeq(s, 1, DateDigits(s)))

\* ^(\d{1,2}):(\d{2})$
TIME_RE(s) ==
    /\ Len(s) \in {4, 5}
    /\ s[Len(s) - 2] = ":"
    /\ \A k \in 1..Len(s) : k # Len(s) - 2 => IsDigit(s[k])

TimeHour(s) == ToInt(SubSeq(s, 1, Len(s) - 3))

TimeMinute(s) == ToInt(SubSeq(s, Len(s) - 1, Len(s)))

\* ^([A-Z]{3})\s+vs\s+([A-Z]{3})$
MATCH_RE(s) ==
    /\ Len(s) >= 10
    /\ \A k \in 1..3 : IsUpper(s[k])
    /\ \A k \in (Len(s) - 2)..Len(s) : IsUpper(s[k])
    /\ \E p \in 5..(Len(s) - 5) :
          /\ s[p] = "v" /\ s[p + 1] = "s"
          /\ \A k \in 4..(p - 1) : IsSpace(s[k])
          /\ \A k \in (p + 2)..(Len(s) - 3) : IsSpace(s[k])

MatchA(s) == SubSeq(s, 1, 3)

MatchB(s) == SubSeq(s, Len(s) - 2, Len(s))

(***************************************************************************)
(* datetime: a wall-clock record; the zone is Europe/Rome, which is CET    *)
(* (UTC+1) for the whole range a February date plus the duration can span. *)
(***************************************************************************)
IsLeap(y) == y % 4 = 0 /\ (y % 100 # 0 \/ y % 400 = 0)

DaysInMonth(y, m) ==
    IF m = 2 THEN (IF IsLeap(y) THEN 29 ELSE 28)
    ELSE IF m \in {4, 6, 9, 11} THEN 30 ELSE 31

RECURSIVE DaysBeforeMonth(_, _)
DaysBeforeMonth(y, m) ==
    IF m = 1 THEN 0 ELSE DaysBeforeMonth(y, m - 1) + DaysInMonth(y, m - 1)

\* datetime(year, month, day, 0, 0, 0) raises ValueError unless the day exists
ValidDate(y, m, d) == d >= 1 /\ d <= DaysInMonth(y, m)

\* ValidTime accepting every hour and minute
ValidTime_Unchecked(hh, mm) == TRUE

\* datetime.replace(hour=, minute=) raises ValueError outside 0..23 / 0..59
ValidTime(hh, mm) == hh \in 0..23 /\ mm \in 0..59

DateTime(y, m, d, hh, mm) ==
    [year |-> y, month |-> m, day |-> d, hour |-> hh, minute |-> mm]

\* minutes from 1 January 00:00 of the datetime's year
MinuteOfYear(dt) ==
    ((DaysBeforeMonth(dt.year, dt.month) + dt.day - 1) * 24 + dt.hour) * 60 + dt.minute

FromMinuteOfYear(y, n) ==
    LET d == n \div 1440
        r == n % 1440
        m == CHOOSE k \in 1..12 :
                 /\ DaysBeforeMonth(y, k) <= d
                 /\ d < DaysBeforeMonth(y, k) + DaysInMonth(y, k)
    IN  DateTime(y, m, d - DaysBeforeMonth(y, m) + 1, r \div 60, r % 60)

\* datetime + timedelta (minutes)
PlusMinutes(dt, delta) == FromMinuteOfYear(dt.year, MinuteOfYear(dt) + delta)

\* Localize ignoring the parsed day
Localize_FirstOfMonth(day) == [year |-> YEAR, month |-> FEBRUARY, day |-> 1, hour |-> 0, minute |-> 0]

\* TZ_LOCAL.localize(datetime(YEAR, 2, day, 0, 0, 0))
Localize(day) == DateTime(YEAR, FEBRUARY, day, 0, 0)

\* start_local.astimezone(TZ_UTC)
AsUtc(dt) == PlusMinutes(dt, 0 - UtcOffsetMinutes)

Pad2(n) == IF n < 10 THEN "0" \o ToString(n) ELSE ToString(n)

\* strftime('%Y%m%dT%H%M')
Strftime(dt) ==
    ToString(dt.year) \o Pad2(dt.month) \o Pad2(dt.day) \o "T"
        \o Pad2(dt.hour) \o Pad2(dt.minute)

(***************************************************************************)
(* parse_games: the helpers of one scan step.                              *)
(***************************************************************************)
\* the line at 0-based index k
Line(ls, k) == ls[k + 1]

\* FindTime with the window one line too long: range(1, 11)
FindTime_Window10(ls, idx) ==
    LET hits == { j \in 1..(TimeWindow + 1) :
                    idx + j < Len(ls) /\ TIME_RE(ls[idx + j + 1]) }
    IN  IF hits = {} THEN 0 ELSE CHOOSE j \in hits : \A k \in hits : j <= k

\* the offset j in 1..9 of the first line after idx that matches TIME_RE, 0 when none
FindTime(ls, idx) ==
    LET hits == { j \in 1..TimeWindow : idx + j < Len(ls) /\ TIME_RE(Line(ls, idx + j)) }
    IN  IF hits = {} THEN 0 ELSE CHOOSE j \in hits : \A k \in hits : j <= k

\* FindVenue taking whatever line follows the matchup's time line
FindVenue_LineAfterTime(ls, idx) ==
    IF idx + FindTime(ls, idx) + 1 < Len(ls)
    THEN Line(ls, idx + FindTime(ls, idx) + 1)
    ELSE None

\* the first of the next five lines that holds a venue keyword, None when none does
FindVenue(ls, idx) ==
    LET hits == { j \in 1..VenueWindow :
                    /\ idx + j < Len(ls)
                    /\ \E x \in VenueKeywords : Contains(Line(ls, idx + j), x) }
    IN  IF hits = {} THEN None
        ELSE Line(ls, idx + (CHOOSE j \in hits : \A k \in hits : j <= k))

\* IsTarget with the team filter lost
IsTarget_AnyTeam(code) == TRUE

IsTarget(code) == code = TARGET

Opponent(a, b) == IF IsTarget(a) THEN b ELSE a

Summary(a, b) == "Sweden vs " \o Join(Opponent(a, b)) \o " (Men's Ice Hockey)"

Uid(start_local, a, b) ==
    Strftime(start_local) \o "-" \o Join(a) \o "vs" \o Join(b) \o "@lundblaad.github.io"

\* current_date_local.replace(hour=hh, minute=mm, second=0)
StartLocal(date, tline) ==
    [date EXCEPT !.hour = TimeHour(tline), !.minute = TimeMinute(tline)]

\* EndLocal with the minutes of the duration dropped
EndLocal_TwoHours(start_local) == PlusMinutes(start_local, 120)

EndLocal(start_local) == PlusMinutes(start_local, DEFAULT_GAME_DURATION)

\* the Game recorded for the matchup line at idx under the date context
MakeGame(ls, idx, date) ==
    LET a == MatchA(Line(ls, idx))
        b == MatchB(Line(ls, idx))
        tline == Line(ls, idx + FindTime(ls, idx))
        start_local == StartLocal(date, tline)
    IN  [ uid         |-> Uid(start_local, a, b),
          dtstart_utc |-> AsUtc(start_local),
          dtend_utc   |-> AsUtc(EndLocal(start_local)),
          summary     |-> Summary(a, b),
          location    |-> FindVenue(ls, idx) ]

\* UniqValues keeping every game
UniqValues_NoDedupe(gs) == gs

\* UniqValues keeping the first game of each uid (dict.setdefault)
RECURSIVE UniqValues_FirstWins(_)
UniqValues_FirstWins(gs) ==
    IF gs = <<>> THEN <<>>
    ELSE LET d == UniqValues_FirstWins(SubSeq(gs, 1, Len(gs) - 1))
             g == gs[Len(gs)]
         IN  IF \E k \in 1..Len(d) : d[k].uid = g.uid THEN d ELSE Append(d, g)

\* {g.uid: g for g in games}.values(): a key keeps the place of its first
\* insertion and takes the value of its last
RECURSIVE UniqValues(_)
UniqValues(gs) ==
    IF gs = <<>> THEN <<>>
    ELSE LET d == UniqValues(SubSeq(gs, 1, Len(gs) - 1))
             g == gs[Len(gs)]
         IN  IF \E k \in 1..Len(d) : d[k].uid = g.uid
             THEN [k \in 1..Len(d) |-> IF d[k].uid = g.uid THEN g ELSE d[k]]
             ELSE Append(d, g)

\* comparison of two aware datetimes
StartsBeforeOrAt(g1, g2) == MinuteOfYear(g1.dtstart_utc) <= MinuteOfYear(g2.dtstart_utc)

\* SortedByStart leaving the mapping's order
SortedByStart_Unsorted(gs) == gs

\* sorted(gs, key=lambda g: g.dtstart_utc): stable
RECURSIVE SortedByStart(_)
SortedByStart(gs) ==
    IF gs = <<>> THEN <<>>
    ELSE LET s == SortedByStart(SubSeq(gs, 1, Len(gs) - 1))
             g == gs[Len(gs)]
             n == Cardinality({ k \in 1..Len(s) : StartsBeforeOrAt(s[k], g) })
         IN  SubSeq(s, 1, n) \o <<g>> \o SubSeq(s, n + 1, Len(s))

\* one VEVENT of build_ics (dtstamp, status, sequence, transp, categories are fixed)
Event(g) ==
    [ uid |-> g.uid, dtstart |-> g.dtstart_utc, dtend |-> g.dtend_utc,
      summary |-> g.summary, description |-> g.summary,
      location |-> IF g.location # None THEN g.location ELSE None ]

BuildEvents(gs) == [k \in 1..Len(gs) |-> Event(gs[k])]

(***************************************************************************)
(* fetch_lines: the live page or the hardcoded sample.                     *)
(***************************************************************************)
\* any("vs" in ln for ln in fetched_lines)
HasMatchText(ls) == \E k \in 1..Len(ls) : Contains(ls[k], <<"v", "s">>)

SampleLines ==
    << <<"1","0"," ","F","e","b">>,
       <<"S","W","E"," ","v","s"," ","C","Z","E">>,
       <<"1","0",":","0","0">>,
       <<"P","a","l","a","i","s","o","z","z","o","l","a","d","r","o","m","e">>,
       <<"1","3"," ","F","e","b">>,
       <<"S","W","E"," ","v","s"," ","L","A","T">>,
       <<"1","2",":","1","0">>,
       <<"P","a","l","a","l","i","d","o">>,
       <<"1","7"," ","F","e","b">>,
       <<"S","W","E"," ","v","s"," ","U","S","A">>,
       <<"1","9",":","3","0">>,
       <<"P","a","l","a","i","s","o","z","z","o","l","a","d","r","o","m","e">>,
       <<"2","1"," ","F","e","b">>,
       <<"S","W","E"," ","v","s"," ","K","A","Z">>,
       <<"0","8",":","0","0">>,
       <<"P","a","l","a","l","i","d","o">> >>

(***************************************************************************)
(* The lines the pages are made of.                                        *)
(***************************************************************************)
L_1Feb == <<"1"," ","F","e","b">>

L_10Feb == <<"1","0"," ","F","e","b">>

L_13Feb == <<"1","3"," ","F","e","b">>

L_28Feb == <<"2","8"," ","F","e","b">>

L_0Feb == <<"0"," ","F","e","b">>

L_30Feb == <<"3","0"," ","F","e","b">>

L_FINvsSWE == <<"F","I","N"," ","v","s"," ","S","W","E">>

L_SWEvsCZE == <<"S","W","E"," ","v","s"," ","C","Z","E">>

L_FINvsCZE == <<"F","I","N"," ","v","s"," ","C","Z","E">>

L_1210 == <<"1","2",":","1","0">>

L_0905 == <<"0","9",":","0","5">>

L_905 == <<"9",":","0","5">>

L_0030 == <<"0",":","3","0">>

L_2330 == <<"2","3",":","3","0">>

L_2500 == <<"2","5",":","0","0">>

L_1275 == <<"1","2",":","7","5">>

L_Palalido == <<"P","a","l","a","l","i","d","o">>

L_MilanoArena == <<"M","i","l","a","n","o"," ","I","c","e"," ","A","r","e","n","a">>

L_Forum == <<"F","o","r","u","m">>

L_Filler == <<"G","r","o","u","p"," ","A">>

(***************************************************************************)
(* Bounds and the pages the live fetch may return.                         *)
(***************************************************************************)
MaxLen == 4
MaxPad == 10
MaxBlocks == 2

Opt(S) == {<<>>} \cup { <<x>> : x \in S }

Vocabulary ==
    { L_13Feb, L_30Feb, L_FINvsSWE, L_FINvsCZE, L_1210, L_2500, L_MilanoArena }

\* every page of at most MaxLen lines of the vocabulary
ShortInputs == UNION { [1..n -> Vocabulary] : n \in 0..MaxLen }

Filler(k) == [n \in 1..k |-> L_Filler]

\* one matchup with up to MaxPad other lines between it and its time line
PaddedInputs ==
    { d \o <<m>> \o Filler(k) \o t1 \o t2 \o v :
        d \in Opt({L_1Feb, L_13Feb, L_28Feb, L_0Feb}),
        m \in {L_FINvsSWE, L_SWEvsCZE, L_FINvsCZE},
        k \in 0..MaxPad,
        t1 \in Opt({L_1210, L_0030, L_2330, L_905, L_0905, L_1275}),
        t2 \in Opt({L_2330}),
        v \in Opt({L_Forum, L_Palalido}) }

Blocks ==
    { d \o <<m>> \o t \o v :
        d \in Opt({L_10Feb, L_13Feb}),
        m \in {L_FINvsSWE},
        t \in Opt({L_1210, L_2500}),
        v \in Opt({L_MilanoArena}) }

RECURSIVE BlockSeqs(_)
BlockSeqs(n) ==
    IF n = 0 THEN {<<>>}
    ELSE LET prev == BlockSeqs(n - 1)
         IN  prev \cup { p \o b : p \in prev, b \in Blocks }

\* pages of at most MaxBlocks schedule entries
BlockInputs == BlockSeqs(MaxBlocks)

InputLines == ShortInputs \cup PaddedInputs \cup BlockInputs

(***************************************************************************)
(* The run of main.                                                        *)
(***************************************************************************)
Init ==
    /\ \/ fetch_raises = TRUE /\ page = <<>>
       \/ fetch_raises = FALSE /\ page \in InputLines
    /\ pc = "fetch"
    /\ lines = <<>>
    /\ i = 0
    /\ current_date_local = None
    /\ games = <<>>
    /\ origin = <<>>
    /\ result = None
    /\ ics = None
    /\ outfile = None

\* fetch_lines returns the fetched lines: nothing raised and some line holds "vs"
FetchLive ==
    /\ pc = "fetch"
    /\ ~fetch_raises
    /\ HasMatchText(page)
    /\ lines' = page
    /\ pc' = "parse"
    /\ UNCHANGED <<fetch_raises, page, i, current_date_local, games, origin,
                   result, ics, outfile>>

\* fetch_lines falls back to the sample: the fetch raised or no line holds "vs"
FetchFallback ==
    /\ pc = "fetch"
    /\ fetch_raises \/ ~HasMatchText(page)
    /\ lines' = SampleLines
    /\ pc' = "parse"
    /\ UNCHANGED <<fetch_raises, page, i, current_date_local, games, origin,
                   result, ics, outfile>>

Scanning == pc = "parse" /\ i < Len(lines)

IsMatchStep == MATCH_RE(Line(lines, i)) /\ current_date_local # None

IsTargetMatchStep ==
    /\ IsMatchStep
    /\ IsTarget(MatchA(Line(lines, i))) \/ IsTarget(MatchB(Line(lines, i)))

Advance ==
    /\ i' = i + 1
    /\ UNCHANGED <<fetch_raises, page, pc, lines, games, origin, result, ics, outfile>>

\* a date marker replaces the date context
ScanDate ==
    /\ Scanning
    /\ DATE_RE(Line(lines, i))
    /\ ValidDate(YEAR, FEBRUARY, DateDay(Line(lines, i)))
    /\ current_date_local' = Localize(DateDay(Line(lines, i)))
    /\ Advance

\* datetime(YEAR, 2, day, ...) raises ValueError, which nothing catches
ScanDateError ==
    /\ Scanning
    /\ DATE_RE(Line(lines, i))
    /\ ~ValidDate(YEAR, FEBRUARY, DateDay(Line(lines, i)))
    /\ pc' = "error"
    /\ UNCHANGED <<fetch_raises, page, lines, i, current_date_local, games, origin,
                   result, ics, outfile>>

\* a matchup without Sweden
ScanOtherTeams ==
    /\ Scanning
    /\ ~DATE_RE(Line(lines, i))
    /\ IsMatchStep
    /\ ~IsTargetMatchStep
    /\ Advance
    /\ UNCHANGED current_date_local

\* a Sweden matchup with no time line in the window
ScanNoTime ==
    /\ Scanning
    /\ ~DATE_RE(Line(lines, i))
    /\ IsTargetMatchStep
    /\ FindTime(lines, i) = 0
    /\ Advance
    /\ UNCHANGED current_date_local

\* current_date_local.replace(hour=hh, minute=mm) raises ValueError
ScanTimeError ==
    /\ Scanning
    /\ ~DATE_RE(Line(lines, i))
    /\ IsTargetMatchStep
    /\ FindTime(lines, i) # 0
    /\ LET tline == Line(lines, i + FindTime(lines, i))
       IN  ~ValidTime(TimeHour(tline), TimeMinute(tline))
    /\ pc' = "error"
    /\ UNCHANGED <<fetch_raises, page, lines, i, current_date_local, games, origin,
                   result, ics, outfile>>

\* a Sweden matchup with a time: the game is recorded
ScanRecord ==
    /\ Scanning
    /\ ~DATE_RE(Line(lines, i))
    /\ IsTargetMatchStep
    /\ FindTime(lines, i) # 0
    /\ LET tline == Line(lines, i + FindTime(lines, i))
       IN  ValidTime(TimeHour(tline), TimeMinute(tline))
    /\ games' = Append(games, MakeGame(lines, i, current_date_local))
    /\ origin' = Append(origin, i)
    /\ i' = i + 1
    /\ UNCHANGED <<fetch_raises, page, pc, lines, current_date_local, result, ics, outfile>>

\* any other line, and a matchup seen before any date marker
ScanOther ==
    /\ Scanning
    /\ ~DATE_RE(Line(lines, i))
    /\ ~IsMatchStep
    /\ Advance
    /\ UNCHANGED current_date_local

\* the scan is over: deduplicate by uid, sort by start, return
ParseReturn ==
    /\ pc = "parse"
    /\ i >= Len(lines)
    /\ result' = SortedByStart(UniqValues(games))
    /\ pc' = "build"
    /\ UNCHANGED <<fetch_raises, page, lines, i, current_date_local, games, origin,
                   ics, outfile>>

BuildIcs ==
    /\ pc = "build"
    /\ ics' = BuildEvents(result)
    /\ pc' = "write"
    /\ UNCHANGED <<fetch_raises, page, lines, i, current_date_local, games, origin,
                   result, outfile>>

WriteFile ==
    /\ pc = "write"
    /\ outfile' = ics
    /\ pc' = "done"
    /\ UNCHANGED <<fetch_raises, page, lines, i, current_date_local, games, origin,
                   result, ics>>

Next ==
    \/ FetchLive
    \/ FetchFallback
    \/ ScanDate
    \/ ScanDateError
    \/ ScanOtherTeams
    \/ ScanNoTime
    \/ ScanTimeError
    \/ ScanRecord
    \/ ScanOther
    \/ ParseReturn
    \/ BuildIcs
    \/ WriteFile

Spec == Init /\ [][Next]_vars

(***************************************************************************)
(* Properties.                                                             *)
(***************************************************************************)
\* parse_games has returned its list
Returned == pc \in {"build", "write", "done"}

Sweden == <<"S", "W", "E">>

\* the line at index p is a matchup with Sweden on one side
SwedenMatchAt(p) ==
    /\ MATCH_RE(Line(lines, p))
    /\ SubSeq(Line(lines, p), 1, 3) = Sweden
          \/ SubSeq(Line(lines, p), Len(Line(lines, p)) - 2, Len(Line(lines, p))) = Sweden

\* the indices of the date markers before index p
DatesBefore(p) == { q \in 0..(p - 1) : DATE_RE(Line(lines, q)) }

LastDateBefore(p) == CHOOSE q \in DatesBefore(p) : \A r \in DatesBefore(p) : r <= q

\* the offsets in 1..9 of the lines after index p that match the time pattern
TimesAfter(p) == { j \in 1..9 : p + j < Len(lines) /\ TIME_RE(Line(lines, p + j)) }

FirstTimeAfter(p) == Line(lines, p + (CHOOSE j \in TimesAfter(p) : \A k \in TimesAfter(p) : j <= k))

\* the local (Europe/Rome) wall clock of a game's start
LocalStart(g) == PlusMinutes(g.dtstart_utc, 60)

Recorded(p) == \E n \in 1..Len(origin) : origin[n] = p

Scenario_FinSwe == <<L_13Feb, L_FINvsSWE, L_1210, L_Palalido>>

Scenario_Game(loc) ==
    [ uid         |-> "20260213T1210-FINvsSWE@lundblaad.github.io",
      dtstart_utc |-> [year |-> 2026, month |-> 2, day |-> 13, hour |-> 11, minute |-> 10],
      dtend_utc   |-> [year |-> 2026, month |-> 2, day |-> 13, hour |-> 13, minute |-> 40],
      summary     |-> "Sweden vs FIN (Men's Ice Hockey)",
      location    |-> loc ]

\* C1 as stated: the lines "13 Feb", "FIN vs SWE", "12:10", "Palalido" give exactly
\* one Game: opponent FIN, start 13 Feb 11:10 UTC, end 13:40 UTC, location "Palalido".
C1_LocationPalalido ==
    (Returned /\ lines = Scenario_FinSwe) => result = <<Scenario_Game(L_Palalido)>>

\* C1 amended: the same lines give exactly one Game: opponent FIN, start 13 Feb
\* 11:10 UTC, end 13:40 UTC, and no location ("Palalido" holds no venue keyword).
C1_LocationAbsent ==
    (Returned /\ lines = Scenario_FinSwe) => result = <<Scenario_Game(None)>>

C1_Witness == Returned /\ lines = Scenario_FinSwe /\ Len(result) = 1

FirstWithUid(u) == CHOOSE n \in 1..Len(games) :
    games[n].uid = u /\ \A m \in 1..Len(games) : games[m].uid = u => n <= m

LastWithUid(u) == CHOOSE n \in 1..Len(games) :
    games[n].uid = u /\ \A m \in 1..Len(games) : games[m].uid = u => m <= n

\* C2 as stated: of several recorded Games with one uid, the returned Game is the
\* first one recorded, in every field.
C2_FirstSeenWins ==
    Returned => \A k \in 1..Len(result) : result[k] = games[FirstWithUid(result[k].uid)]

\* C2 amended: of several recorded Games with one uid, the returned Game is the
\* last one recorded, in every field (location included); every recorded uid is
\* returned.
C2_LastSeenWins ==
    Returned =>
        /\ \A k \in 1..Len(result) : result[k] = games[LastWithUid(result[k].uid)]
        /\ \A n \in 1..Len(games) : \E k \in 1..Len(result) : result[k].uid = games[n].uid

C2_Witness ==
    /\ Returned
    /\ \E m, n \in 1..Len(games) :
          m < n /\ games[m].uid = games[n].uid /\ games[m].location # games[n].location

\* C3: no two returned Games share a uid, and recorded matchup lines of identical
\* text with the same date context and time value come back as exactly one Game.
C3_UidUnique ==
    Returned =>
        /\ \A j, k \in 1..Len(result) : j # k => result[j].uid # result[k].uid
        /\ \A m, n \in 1..Len(games) :
              (/\ Line(lines, origin[m]) = Line(lines, origin[n])
               /\ games[m].dtstart_utc = games[n].dtstart_utc)
              => Cardinality({ k \in 1..Len(result) :
                                 result[k].uid \in {games[m].uid, games[n].uid} }) = 1

C3_Witness ==
    /\ Returned
    /\ \E m, n \in 1..Len(games) :
          /\ m < n
          /\ Line(lines, origin[m]) = Line(lines, origin[n])
          /\ games[m].dtstart_utc = games[n].dtstart_utc

\* C4: the returned list is sorted ascending by start time.
C4_SortedByStart ==
    Returned =>
        \A k \in 1..(Len(result) - 1) :
            MinuteOfYear(result[k].dtstart_utc) <= MinuteOfYear(result[k + 1].dtstart_utc)

C4_Witness ==
    /\ Returned
    /\ Len(result) >= 2
    /\ \E k \in 1..(Len(games) - 1) :
          MinuteOfYear(games[k].dtstart_utc) > MinuteOfYear(games[k + 1].dtstart_utc)

IsDateTime(dt) ==
    /\ dt.month \in 1..12
    /\ dt.day \in 1..DaysInMonth(dt.year, dt.month)
    /\ dt.hour \in 0..23
    /\ dt.minute \in 0..59

\* C5: every returned Game ends exactly 2 h 30 min after it starts, in UTC.
C5_EndIsStartPlusDuration ==
    Returned =>
        \A k \in 1..Len(result) :
            /\ IsDateTime(result[k].dtstart_utc)
            /\ IsDateTime(result[k].dtend_utc)
            /\ MinuteOfYear(result[k].dtend_utc)
                 = MinuteOfYear(result[k].dtstart_utc) + 2 * 60 + 30

\* a returned game that ends on the UTC day after the one it starts on
C5_Witness ==
    /\ Returned
    /\ \E k \in 1..Len(result) : result[k].dtend_utc.day # result[k].dtstart_utc.day

\* C6: every recorded and every returned Game comes from a matchup line with
\* Sweden on one side; "13 Feb", "FIN vs CZE", "12:10" gives no Game.
C6_OnlyTargetTeam ==
    /\ \A n \in 1..Len(games) : SwedenMatchAt(origin[n])
    /\ Returned =>
          /\ \A k \in 1..Len(result) : \E n \in 1..Len(games) : games[n] = result[k]
          /\ lines = <<L_13Feb, L_FINvsCZE, L_1210>> => result = <<>>

C6_Witness ==
    /\ Returned
    /\ Len(result) >= 1
    /\ \E p \in 0..(Len(lines) - 1) :
          /\ MATCH_RE(Line(lines, p))
          /\ ~SwedenMatchAt(p)
          /\ DatesBefore(p) # {}
          /\ TimesAfter(p) # {}

\* C7: a Sweden matchup under a date context records a Game exactly when one of
\* the lines at offsets 1..9 after it matches the time pattern, the Game's time
\* is that of the first such line, and the scan goes on to the later lines.
C7_TimeWindow ==
    /\ \A n \in 1..Len(games) :
          /\ TimesAfter(origin[n]) # {}
          /\ LocalStart(games[n]).hour = TimeHour(FirstTimeAfter(origin[n]))
          /\ LocalStart(games[n]).minute = TimeMinute(FirstTimeAfter(origin[n]))
          /\ \A m \in 1..Len(games) : origin[m] = origin[n] => m = n
    /\ pc # "error" =>
          \A p \in 0..(i - 1) :
              (SwedenMatchAt(p) /\ DatesBefore(p) # {})
                  => (Recorded(p) <=> TimesAfter(p) # {})

\* a matchup whose only time line is at offset 10 is passed without a Game
C7_Witness ==
    /\ Returned
    /\ \E p \in 0..(Len(lines) - 1) :
          /\ SwedenMatchAt(p)
          /\ DatesBefore(p) # {}
          /\ TimesAfter(p) = {}
          /\ p + 10 < Len(lines)
          /\ TIME_RE(Line(lines, p + 10))
          /\ ~Recorded(p)

\* C8 as stated: a run of main never ends with an error.
C8_MainAlwaysSucceeds == pc # "error"

\* C9: the date context is None exactly until the first date marker is scanned;
\* a matchup before any date marker records nothing, and every recorded Game
\* has the local calendar day of the last date marker before its matchup line.
C9_DateContext ==
    /\ pc = "parse" => (current_date_local = None <=> DatesBefore(i) = {})
    /\ \A n \in 1..Len(games) :
          /\ DatesBefore(origin[n]) # {}
          /\ LocalStart(games[n]).year = 2026
          /\ LocalStart(games[n]).month = 2
          /\ LocalStart(games[n]).day = DateDay(Line(lines, LastDateBefore(origin[n])))

\* a Sweden matchup with a time line before any date marker is passed without
\* a Game, and a later matchup under a date marker is recorded
C9_Witness ==
    /\ Returned
    /\ \E p \in 0..(Len(lines) - 1) :
          /\ SwedenMatchAt(p) /\ TimesAfter(p) # {} /\ DatesBefore(p) = {}
          /\ \E n \in 1..Len(games) : origin[n] > p

BadDateAt(p) ==
    /\ DATE_RE(Line(lines, p))
    /\ DateDay(Line(lines, p)) \notin 1..28

BadTimeAt(p) ==
    /\ ~DATE_RE(Line(lines, p))
    /\ SwedenMatchAt(p)
    /\ DatesBefore(p) # {}
    /\ TimesAfter(p) # {}
    /\ TimeHour(FirstTimeAfter(p)) > 23 \/ TimeMinute(FirstTimeAfter(p)) > 59

\* C10: the scan never gets past a date line with a day outside 1..28 nor past a
\* Sweden matchup whose selected time line has hour > 23 or minute > 59: it
\* aborts there, and nothing is returned, built or written.
C10_AbortsOnOutOfRange ==
    /\ pc = "error" =>
          /\ BadDateAt(i) \/ BadTimeAt(i)
          /\ result = None /\ ics = None /\ outfile = None
    /\ pc # "error" => \A p \in 0..(i - 1) : ~BadDateAt(p) /\ ~BadTimeAt(p)

\* the abort loses a game recorded earlier in the scan
C10_Witness == pc = "error" /\ Len(games) >= 1 /\ BadTimeAt(i)

====
